---- MODULE Spec2Model ----
(***************************************************************************)
(* Model of nf_core.utils.fetch_wf_config: the content-addressed cache of  *)
(* `nextflow config -flat` output merged with parameter names scraped from *)
(* main.nf.                                                                *)
(*                                                                         *)
(* Text is modelled as a sequence of one-character strings, a dict as the  *)
(* insertion-ordered sequence of its <<key, value>> items.                 *)
(***************************************************************************)
EXTENDS Integers, Sequences, FiniteSets, TLC

\* ------------------------------------------------------------------ bounds
MaxCalls == 3      \* calls of fetch_wf_config in one behaviour
MaxMods == 2       \* modifications of the workflow directory in one behaviour
MaxLines == 3      \* lines of tool output in the parsing specification

\* ------------------------------------------------------------ text helpers
Sep == <<" ", "=", " ">>
ParamsPrefix == <<"p", "a", "r", "a", "m", "s", ".">>
SentinelFalse == <<"f", "a", "l", "s", "e">>
Whitespace == {" ", "\t"}
IdentChars == {"a", "b", "c", "m", "p", "r", "s", "x", "y", "_", "1", "2", "3"}

RECURSIVE Find(_, _, _)
\* str.find: first index >= from at which sub occurs in s, 0 when it does not
Find(s, sub, from) ==
    IF from + Len(sub) - 1 > Len(s) THEN 0
    ELSE IF SubSeq(s, from, from + Len(sub) - 1) = sub THEN from
    ELSE Find(s, sub, from + 1)

RECURSIVE SplitNoMax(_, _)
\* a plausible slip: the maxsplit argument forgotten, ul.split(" = ")
SplitNoMax(s, sep) ==
    LET pos == Find(s, sep, 1)
    IN IF pos = 0 THEN <<s>>
       ELSE <<SubSeq(s, 1, pos - 1)>> \o SplitNoMax(SubSeq(s, pos + Len(sep), Len(s)), sep)

\* ul.split(" = ", 1): split at the first occurrence only
Split(s, sep) ==
    LET pos == Find(s, sep, 1)
    IN IF pos = 0 THEN <<s>>
       ELSE <<SubSeq(s, 1, pos - 1), SubSeq(s, pos + Len(sep), Len(s))>>

\* ------------------------------------------------------------------- dicts
RECURSIVE DictIndex(_, _, _)
DictIndex(d, k, i) ==
    IF i > Len(d) THEN 0
    ELSE IF d[i][1] = k THEN i
    ELSE DictIndex(d, k, i + 1)

DictHas(d, k) == DictIndex(d, k, 1) # 0
DictGet(d, k) == d[DictIndex(d, k, 1)][2]
DictKeys(d) == {d[i][1] : i \in 1..Len(d)}

\* config[k] = v
DictSet(d, k, v) ==
    LET i == DictIndex(d, k, 1)
    IN IF i = 0 THEN Append(d, <<k, v>>) ELSE [d EXCEPT ![i] = <<k, v>>]

\* dict equality in Python ignores insertion order
DictEq(d, e) ==
    /\ DictKeys(d) = DictKeys(e)
    /\ \A k \in DictKeys(d) : DictGet(d, k) = DictGet(e, k)

\* ------------------------------------------------- parsing the tool output
\* one iteration of the loop over nfconfig_raw.splitlines()
ParseLine(cfg, ul) ==
    LET parts == Split(ul, Sep)
    IN IF Len(parts) = 2 THEN DictSet(cfg, parts[1], parts[2])
       ELSE cfg    \* ValueError on unpacking: logged, line dropped

RECURSIVE ParseFrom(_, _, _)
ParseFrom(cfg, lines, i) ==
    IF i > Len(lines) THEN cfg
    ELSE ParseFrom(ParseLine(cfg, lines[i]), lines, i + 1)

ParseToolOutput(cfg, lines) == ParseFrom(cfg, lines, 1)

\* ------------------------------------------------------- scraping main.nf
RECURSIVE SkipWhile(_, _, _)
\* first index >= i whose character is not in class (Len(s) + 1 at the end)
SkipWhile(s, class, i) ==
    IF i > Len(s) THEN i
    ELSE IF s[i] \in class THEN SkipWhile(s, class, i + 1)
    ELSE i

\* re.match(r"^\s*(params\.[a-zA-Z0-9_]+)\s*=", l): group 1, or <<>> for None
ReMatch(l) ==
    LET a == SkipWhile(l, Whitespace, 1)
        b == a + Len(ParamsPrefix)
        c == SkipWhile(l, IdentChars, b)
        e == SkipWhile(l, Whitespace, c)
    IN IF /\ b - 1 <= Len(l)
          /\ SubSeq(l, a, b - 1) = ParamsPrefix
          /\ c > b
          /\ e <= Len(l)
          /\ l[e] = "="
       THEN SubSeq(l, a, c - 1)
       ELSE <<>>

\* one iteration of `for l in fh`
ScanLine(cfg, l) ==
    LET m == ReMatch(l)
    IN IF m # <<>> THEN DictSet(cfg, m, SentinelFalse) ELSE cfg

RECURSIVE ScanFrom(_, _, _)
ScanFrom(cfg, lines, i) ==
    IF i > Len(lines) THEN cfg
    ELSE ScanFrom(ScanLine(cfg, lines[i]), lines, i + 1)

ScanMainNf(cfg, lines) == ScanFrom(cfg, lines, 1)

\* ----------------------------------------------------------- JSON on disk
\* json.dump(config, fh, indent=4): an object of string members
JsonDump(cfg) ==
    <<[t |-> "{", k |-> <<>>, v |-> <<>>]>>
    \o [i \in 1..Len(cfg) |-> [t |-> "member", k |-> cfg[i][1], v |-> cfg[i][2]]]
    \o <<[t |-> "}", k |-> <<>>, v |-> <<>>]>>

\* whether json.load accepts the text
JsonValid(text) ==
    /\ Len(text) >= 2
    /\ text[1].t = "{"
    /\ text[Len(text)].t = "}"
    /\ \A i \in 2..(Len(text) - 1) : text[i].t = "member"

RECURSIVE JsonMembers(_, _, _)
JsonMembers(cfg, text, i) ==
    IF i >= Len(text) THEN cfg
    ELSE JsonMembers(DictSet(cfg, text[i].k, text[i].v), text, i + 1)

\* json.load(fh) of a valid text
JsonLoad(text) == JsonMembers(<<>>, text, 2)

\* ------------------------------------------------------------ environment
Procs == {1, 2}
FileNames == <<"nextflow.config", "main.nf">>
Absent == "absent"
Contents == {"c1", "c2"}      \* the byte strings a tracked file can hold
DirStates == [{"nextflow.config", "main.nf"} -> Contents \cup {Absent}]

\* the lines of a file holding byte string c
FileText(c) ==
    IF c = "c1"
    THEN << ParamsPrefix \o <<"a", " ", "=", " ", "1">>,
            <<" ">> \o ParamsPrefix \o <<"b", "=", "x">> >>
    ELSE << ParamsPrefix \o <<"c", " ", "=", " ", "3">>,
            <<"x">> \o ParamsPrefix \o <<"a", " ", "=", " ", "1">> >>

\* stdout of `nextflow config -flat wf_path` when it exits with status 0
ToolStdout(d) ==
    IF d["nextflow.config"] = "c1"
    THEN << ParamsPrefix \o <<"a", " ", "=", " ", "1">>,
            <<"x", "y">>,
            ParamsPrefix \o <<"a", " ", "=", " ", "2">>,
            <<"m", " ", "=", " ", "x", " ", "=", " ", "y">> >>
    ELSE IF d["nextflow.config"] = "c2"
    THEN << ParamsPrefix \o <<"c", " ", "=", " ", "3">> >>
    ELSE << <<"m", " ", "=", " ", "x">> >>

\* how subprocess.check_output can end
ToolOutcomes == {"ok", "ENOENT", "EACCES", "nonzero"}

\* ----------------------------------------------------------------- hashing
\* hashlib.sha256(...).hexdigest(), taken to be injective
Sha256(x) == <<x>>

RECURSIVE ConcatHashFrom(_, _)
\* the loop over ["nextflow.config", "main.nf"]: a missing file adds nothing
ConcatHashFrom(d, i) ==
    IF i > Len(FileNames) THEN <<>>
    ELSE (IF d[FileNames[i]] = Absent THEN <<>> ELSE <<Sha256(d[FileNames[i]])>>)
         \o ConcatHashFrom(d, i + 1)

ConcatHash(d) == ConcatHashFrom(d, 1)

\* a plausible slip: the file name derived even from an empty concat_hash
CacheFnAlways(concat_hash) == Sha256(concat_hash)

\* cache_fn: "wf-config-cache-{bighash[:25]}.json", or <<>> for None
CacheFn(concat_hash) ==
    IF Len(concat_hash) > 0 THEN Sha256(concat_hash) ELSE <<>>

HashSeqs ==
    {<<>>} \cup {<<Sha256(c)>> : c \in Contents}
           \cup {<<Sha256(c), Sha256(e)>> : c \in Contents, e \in Contents}
AllCacheFns == {Sha256(s) : s \in HashSeqs}

NoFile == [exists |-> FALSE, text |-> <<>>]
NoResult == [kind |-> "none", config |-> <<>>, err |-> ""]
Returned(cfg) == [kind |-> "return", config |-> cfg, err |-> ""]
Raised(e) == [kind |-> "raise", config |-> <<>>, err |-> e]

\* what a resolution without any cache computes when the tool exits with 0
Fresh(d) ==
    LET tool == ParseToolOutput(<<>>, ToolStdout(d))
    IN IF d["main.nf"] = Absent THEN tool
       ELSE ScanMainNf(tool, FileText(d["main.nf"]))

\* ------------------------------------------------------------------- state
VARIABLES
    procs,           \* the processes that call fetch_wf_config
    nxf_home_isdir,  \* os.path.isdir(nxf_home)
    basedir_isdir,   \* os.path.isdir(<nxf_home>/nf-core)
    wf_files,        \* the tracked files of wf_path
    cache_files,     \* the files <nxf_home>/nf-core/wf-config-cache-*.json
    pc,              \* position of each process in fetch_wf_config
    cache_basedir,   \* local: TRUE when set, FALSE for None
    cache_fn,        \* local: <<>> for None
    cache_path,      \* local: <<>> for None
    config,          \* local
    result,          \* what the call returned or raised
    tool_outcome,    \* how the tool invocation of the call ended, "none" before
    tool_config,     \* config as parsed from the tool output of the call
    invoked,         \* tool invocations of the call
    cache_read,      \* whether the call opened a cache file for reading
    cache_written,   \* whether the call opened a cache file for writing
    cache_at_start,  \* cache_files when the call started
    first_result,    \* per directory state, the result of the first completed successful call
    cache_src,       \* per cache file, the directory state it was written for
    cache_miss,      \* whether the call found its cache file missing or unreadable
    persist_failed,  \* whether the call failed to write its cache file
    faulted,         \* whether the tool or the file system failed so far
    ncalls,
    nmods,
    p_lines,         \* parsing specification: the tool output
    p_idx,           \* parsing specification: next line
    p_config         \* parsing specification: config so far

fsvars == <<nxf_home_isdir, basedir_isdir, wf_files, cache_files>>
locals == <<cache_basedir, cache_fn, cache_path, config>>
ghosts == <<tool_outcome, tool_config, invoked, cache_read, cache_written,
            cache_at_start, first_result, cache_src, cache_miss, persist_failed, faulted>>
pvars == <<p_lines, p_idx, p_config>>
vars == <<procs, fsvars, pc, locals, result, ghosts, ncalls, nmods, pvars>>

NoDir == [f \in {"nextflow.config", "main.nf"} |-> Absent]

InitEnv ==
    /\ nxf_home_isdir \in BOOLEAN
    /\ basedir_isdir \in BOOLEAN
    /\ basedir_isdir => nxf_home_isdir
    /\ wf_files \in DirStates

InitProc ==
    /\ cache_files = [fn \in AllCacheFns |-> NoFile]
    /\ pc = [p \in Procs |-> "idle"]
    /\ cache_basedir = [p \in Procs |-> FALSE]
    /\ cache_fn = [p \in Procs |-> <<>>]
    /\ cache_path = [p \in Procs |-> <<>>]
    /\ config = [p \in Procs |-> <<>>]
    /\ result = [p \in Procs |-> NoResult]
    /\ tool_outcome = [p \in Procs |-> "none"]
    /\ tool_config = [p \in Procs |-> <<>>]
    /\ invoked = [p \in Procs |-> 0]
    /\ cache_read = [p \in Procs |-> FALSE]
    /\ cache_written = [p \in Procs |-> FALSE]
    /\ cache_at_start = [p \in Procs |-> cache_files]
    /\ first_result = [d \in DirStates |-> NoResult]
    /\ cache_src = [fn \in AllCacheFns |-> NoDir]
    /\ cache_miss = [p \in Procs |-> FALSE]
    /\ persist_failed = [p \in Procs |-> FALSE]
    /\ faulted = FALSE
    /\ ncalls = 0
    /\ nmods = 0

\* one process calling fetch_wf_config again and again
Init ==
    /\ InitEnv /\ InitProc
    /\ procs = {1}
    /\ p_lines = <<>> /\ p_idx = 1 /\ p_config = <<>>

\* two processes calling fetch_wf_config on the same workflow directory
InitRace ==
    /\ InitEnv /\ InitProc
    /\ procs = Procs
    /\ p_lines = <<>> /\ p_idx = 1 /\ p_config = <<>>

\* --------------------------------------------------------- fetch_wf_config
Raise(p, e) ==
    /\ pc' = [pc EXCEPT ![p] = "done"]
    /\ result' = [result EXCEPT ![p] = Raised(e)]

Return(p, cfg) ==
    /\ pc' = [pc EXCEPT ![p] = "done"]
    /\ result' = [result EXCEPT ![p] = Returned(cfg)]

\* entry, and os.path.isdir(nxf_home) / os.path.isdir(cache_basedir)
Start(p) ==
    /\ p \in procs
    /\ pc[p] = "idle"
    /\ ncalls < MaxCalls
    /\ ncalls' = ncalls + 1
    /\ config' = [config EXCEPT ![p] = <<>>]
    /\ cache_fn' = [cache_fn EXCEPT ![p] = <<>>]
    /\ cache_path' = [cache_path EXCEPT ![p] = <<>>]
    /\ cache_basedir' = [cache_basedir EXCEPT ![p] = nxf_home_isdir]
    /\ pc' = [pc EXCEPT ![p] = IF nxf_home_isdir /\ ~basedir_isdir THEN "mkdir" ELSE "hash"]
    /\ result' = [result EXCEPT ![p] = NoResult]
    /\ tool_outcome' = [tool_outcome EXCEPT ![p] = "none"]
    /\ tool_config' = [tool_config EXCEPT ![p] = <<>>]
    /\ invoked' = [invoked EXCEPT ![p] = 0]
    /\ cache_read' = [cache_read EXCEPT ![p] = FALSE]
    /\ cache_written' = [cache_written EXCEPT ![p] = FALSE]
    /\ cache_at_start' = [cache_at_start EXCEPT ![p] = cache_files]
    /\ cache_miss' = [cache_miss EXCEPT ![p] = FALSE]
    /\ persist_failed' = [persist_failed EXCEPT ![p] = FALSE]
    /\ UNCHANGED <<procs, fsvars, first_result, cache_src, faulted, nmods, pvars>>

\* os.mkdir(cache_basedir), outside any try
Mkdir(p) ==
    /\ p \in procs
    /\ pc[p] = "mkdir"
    /\ IF basedir_isdir
       THEN /\ Raise(p, "FileExistsError")
            /\ UNCHANGED <<basedir_isdir, persist_failed, faulted>>
       ELSE \E ok \in BOOLEAN :
              IF ok
              THEN /\ basedir_isdir' = TRUE
                   /\ pc' = [pc EXCEPT ![p] = "hash"]
                   /\ UNCHANGED <<result, persist_failed, faulted>>
              ELSE /\ Raise(p, "PermissionError")
                   /\ persist_failed' = [persist_failed EXCEPT ![p] = TRUE]
                   /\ faulted' = TRUE
                   /\ UNCHANGED basedir_isdir
    /\ UNCHANGED <<procs, nxf_home_isdir, wf_files, cache_files, locals, tool_outcome,
                   tool_config, invoked, cache_read, cache_written, cache_at_start,
                   first_result, cache_src, cache_miss, ncalls, nmods, pvars>>

\* concat_hash, bighash and cache_fn
Hash(p) ==
    /\ p \in procs
    /\ pc[p] = "hash"
    /\ cache_fn' = [cache_fn EXCEPT ![p] = CacheFn(ConcatHash(wf_files))]
    /\ pc' = [pc EXCEPT ![p] = "lookup"]
    /\ UNCHANGED <<procs, fsvars, cache_basedir, cache_path, config, result, ghosts,
                   ncalls, nmods, pvars>>

\* the ghost variables an action of the call leaves alone by default
callghosts == <<tool_outcome, tool_config, invoked, cache_at_start, first_result>>

\* a plausible slip: the existing cache file is never looked at
LookupNever(p) ==
    /\ p \in procs
    /\ pc[p] = "lookup"
    /\ cache_path' = [cache_path EXCEPT ![p] =
                        IF cache_basedir[p] /\ cache_fn[p] # <<>> THEN cache_fn[p] ELSE <<>>]
    /\ cache_miss' = [cache_miss EXCEPT ![p] = cache_path'[p] # <<>>]
    /\ pc' = [pc EXCEPT ![p] = "invoke"]
    /\ UNCHANGED <<procs, fsvars, cache_basedir, cache_fn, config, result, callghosts,
                   cache_read, cache_written, cache_src, persist_failed, faulted,
                   ncalls, nmods, pvars>>

\* `if cache_basedir and cache_fn:` and os.path.isfile(cache_path)
Lookup(p) ==
    /\ p \in procs
    /\ pc[p] = "lookup"
    /\ IF cache_basedir[p] /\ cache_fn[p] # <<>>
       THEN /\ cache_path' = [cache_path EXCEPT ![p] = cache_fn[p]]
            /\ IF cache_files[cache_fn[p]].exists
               THEN /\ pc' = [pc EXCEPT ![p] = "load"]
                    /\ UNCHANGED cache_miss
               ELSE /\ pc' = [pc EXCEPT ![p] = "invoke"]
                    /\ cache_miss' = [cache_miss EXCEPT ![p] = TRUE]
       ELSE /\ pc' = [pc EXCEPT ![p] = "invoke"]
            /\ UNCHANGED <<cache_path, cache_miss>>
    /\ UNCHANGED <<procs, fsvars, cache_basedir, cache_fn, config, result, callghosts,
                   cache_read, cache_written, cache_src, persist_failed, faulted,
                   ncalls, nmods, pvars>>

\* open(cache_path, "r"), json.load and return, outside any try
Load(p) ==
    /\ p \in procs
    /\ pc[p] = "load"
    /\ cache_read' = [cache_read EXCEPT ![p] = TRUE]
    /\ LET f == cache_files[cache_path[p]]
       IN IF ~f.exists
          THEN /\ Raise(p, "FileNotFoundError")
               /\ cache_miss' = [cache_miss EXCEPT ![p] = TRUE]
               /\ UNCHANGED config
          ELSE IF JsonValid(f.text)
          THEN /\ config' = [config EXCEPT ![p] = JsonLoad(f.text)]
               /\ Return(p, JsonLoad(f.text))
               /\ UNCHANGED cache_miss
          ELSE /\ Raise(p, "JSONDecodeError")
               /\ cache_miss' = [cache_miss EXCEPT ![p] = TRUE]
               /\ UNCHANGED config
    /\ UNCHANGED <<procs, fsvars, cache_basedir, cache_fn, cache_path, callghosts,
                   cache_written, cache_src, persist_failed, faulted, ncalls, nmods, pvars>>

\* a plausible slip: a non-zero exit status handled like an unexpected OSError
InvokeLenient(p) ==
    /\ p \in procs
    /\ pc[p] = "invoke"
    /\ \E o \in ToolOutcomes :
         /\ tool_outcome' = [tool_outcome EXCEPT ![p] = o]
         /\ invoked' = [invoked EXCEPT ![p] = @ + 1]
         /\ faulted' = (faulted \/ o # "ok")
         /\ IF o = "ok"
            THEN /\ config' = [config EXCEPT ![p] = ParseToolOutput(@, ToolStdout(wf_files))]
                 /\ tool_config' = [tool_config EXCEPT ![p] = config'[p]]
                 /\ pc' = [pc EXCEPT ![p] = "scan"]
                 /\ UNCHANGED result
            ELSE IF o = "ENOENT"
            THEN /\ Raise(p, "AssertionError: Nextflow is not installed")
                 /\ UNCHANGED <<config, tool_config>>
            ELSE /\ pc' = [pc EXCEPT ![p] = "scan"]
                 /\ UNCHANGED <<config, tool_config, result>>
    /\ UNCHANGED <<procs, fsvars, cache_basedir, cache_fn, cache_path, cache_read,
                   cache_written, cache_at_start, first_result, cache_src, cache_miss,
                   persist_failed, ncalls, nmods, pvars>>

\* subprocess.check_output with its except clauses, and the parsing loop
Invoke(p) ==
    /\ p \in procs
    /\ pc[p] = "invoke"
    /\ \E o \in ToolOutcomes :
         /\ tool_outcome' = [tool_outcome EXCEPT ![p] = o]
         /\ invoked' = [invoked EXCEPT ![p] = @ + 1]
         /\ faulted' = (faulted \/ o # "ok")
         /\ IF o = "ok"
            THEN /\ config' = [config EXCEPT ![p] = ParseToolOutput(@, ToolStdout(wf_files))]
                 /\ tool_config' = [tool_config EXCEPT ![p] = config'[p]]
                 /\ pc' = [pc EXCEPT ![p] = "scan"]
                 /\ UNCHANGED result
            ELSE IF o = "ENOENT"
            THEN /\ Raise(p, "AssertionError: Nextflow is not installed")
                 /\ UNCHANGED <<config, tool_config>>
            ELSE IF o = "nonzero"
            THEN /\ Raise(p, "AssertionError: non-zero error code")
                 /\ UNCHANGED <<config, tool_config>>
            \* an OSError whose errno is not ENOENT: caught, not re-raised
            ELSE /\ pc' = [pc EXCEPT ![p] = "scan"]
                 /\ UNCHANGED <<config, tool_config, result>>
    /\ UNCHANGED <<procs, fsvars, cache_basedir, cache_fn, cache_path, cache_read,
                   cache_written, cache_at_start, first_result, cache_src, cache_miss,
                   persist_failed, ncalls, nmods, pvars>>

\* the loop over main.nf, FileNotFoundError caught
Scan(p) ==
    /\ p \in procs
    /\ pc[p] = "scan"
    /\ config' = [config EXCEPT ![p] =
                    IF wf_files["main.nf"] = Absent THEN @
                    ELSE ScanMainNf(@, FileText(wf_files["main.nf"]))]
    /\ pc' = [pc EXCEPT ![p] = "store"]
    /\ UNCHANGED <<procs, fsvars, cache_basedir, cache_fn, cache_path, result, ghosts,
                   ncalls, nmods, pvars>>

\* `if cache_path:` and open(cache_path, "w"), which truncates; outside any try
Store(p) ==
    /\ p \in procs
    /\ pc[p] = "store"
    /\ IF cache_path[p] # <<>>
       THEN \E ok \in BOOLEAN :
              IF ok
              THEN /\ cache_files' = [cache_files EXCEPT ![cache_path[p]] =
                                        [exists |-> TRUE, text |-> <<>>]]
                   /\ cache_written' = [cache_written EXCEPT ![p] = TRUE]
                   /\ pc' = [pc EXCEPT ![p] = "dump"]
                   /\ UNCHANGED <<result, persist_failed, faulted>>
              ELSE /\ Raise(p, "PermissionError")
                   /\ persist_failed' = [persist_failed EXCEPT ![p] = TRUE]
                   /\ faulted' = TRUE
                   /\ UNCHANGED <<cache_files, cache_written>>
       ELSE /\ Return(p, config[p])
            /\ UNCHANGED <<cache_files, cache_written, persist_failed, faulted>>
    /\ UNCHANGED <<procs, nxf_home_isdir, basedir_isdir, wf_files, locals, callghosts,
                   cache_read, cache_src, cache_miss, ncalls, nmods, pvars>>

\* json.dump(config, fh, indent=4), close and return
Dump(p) ==
    /\ p \in procs
    /\ pc[p] = "dump"
    /\ \E ok \in BOOLEAN :
         IF ok
         THEN /\ cache_files' = [cache_files EXCEPT ![cache_path[p]] =
                                   [exists |-> TRUE, text |-> JsonDump(config[p])]]
              /\ cache_src' = [cache_src EXCEPT ![cache_path[p]] = wf_files]
              /\ Return(p, config[p])
              /\ UNCHANGED <<persist_failed, faulted>>
         ELSE /\ Raise(p, "OSError")
              /\ persist_failed' = [persist_failed EXCEPT ![p] = TRUE]
              /\ faulted' = TRUE
              /\ UNCHANGED <<cache_files, cache_src>>
    /\ UNCHANGED <<procs, nxf_home_isdir, basedir_isdir, wf_files, locals, callghosts,
                   cache_read, cache_written, cache_miss, ncalls, nmods, pvars>>

\* the caller takes the result; the process may call again
Finish(p) ==
    /\ p \in procs
    /\ pc[p] = "done"
    /\ pc' = [pc EXCEPT ![p] = "idle"]
    /\ first_result' = IF result[p].kind = "return" /\ first_result[wf_files].kind = "none"
                       THEN [first_result EXCEPT ![wf_files] = result[p]]
                       ELSE first_result
    /\ UNCHANGED <<procs, fsvars, locals, result, tool_outcome, tool_config, invoked,
                   cache_read, cache_written, cache_at_start, cache_src, cache_miss,
                   persist_failed, faulted, ncalls, nmods, pvars>>

\* somebody edits, creates or deletes a tracked file between calls
ModifyFile ==
    /\ \A p \in procs : pc[p] = "idle"
    /\ nmods < MaxMods
    /\ nmods' = nmods + 1
    /\ \E f \in {"nextflow.config", "main.nf"}, c \in Contents \cup {Absent} :
         /\ c # wf_files[f]
         /\ wf_files' = [wf_files EXCEPT ![f] = c]
    /\ UNCHANGED <<procs, nxf_home_isdir, basedir_isdir, cache_files, pc, locals, result,
                   ghosts, ncalls, pvars>>

Call(p) ==
    \/ Start(p)
    \/ Mkdir(p)
    \/ Hash(p)
    \/ Lookup(p)
    \/ Load(p)
    \/ Invoke(p)
    \/ Scan(p)
    \/ Store(p)
    \/ Dump(p)
    \/ Finish(p)

Next ==
    \/ \E p \in Procs : Call(p)
    \/ ModifyFile

\* concurrent calls on a workflow directory that nobody modifies
NextRace == \E p \in Procs : Call(p)

Spec == Init /\ [][Next]_vars
SpecRace == InitRace /\ [][NextRace]_vars

\* ------------------------------------------- the parsing loop on its own
PLines ==
    { <<"a", " ", "=", " ", "1">>,
      <<"a", " ", "=", " ", "2">>,
      <<"b", " ", "=", " ", "1", " ", "=", " ", "2">>,
      <<"a", " ", "=", " ", "1", " ", "=", " ", "2">>,
      <<"x", "y">>,
      <<"a", " ", "=", "1">>,
      <<" ", "=", " ">> }
LineSeqs == UNION {[1..n -> PLines] : n \in 0..MaxLines}

InitParse ==
    /\ nxf_home_isdir = FALSE /\ basedir_isdir = FALSE /\ wf_files = NoDir
    /\ InitProc
    /\ procs = {}
    /\ p_lines \in LineSeqs
    /\ p_idx = 1
    /\ p_config = <<>>

\* one iteration of `for l in nfconfig_raw.splitlines()`
ParseStep ==
    /\ p_idx <= Len(p_lines)
    /\ p_config' = ParseLine(p_config, p_lines[p_idx])
    /\ p_idx' = p_idx + 1
    /\ UNCHANGED <<procs, fsvars, pc, locals, result, ghosts, ncalls, nmods, p_lines>>

NextParse == ParseStep
SpecParse == InitParse /\ [][NextParse]_vars

\* ------------------------------------------------------------------ claims
Done(p) == p \in procs /\ pc[p] = "done"
NoTrackedFiles == ConcatHash(wf_files) = <<>>

\* the parameter names that the scan of main.nf finds
ScannedNames(d) ==
    IF d["main.nf"] = Absent THEN {}
    ELSE {ReMatch(FileText(d["main.nf"])[i]) : i \in 1..Len(FileText(d["main.nf"]))} \ {<<>>}

\* C1: in the mapping returned after a successful tool invocation, every key
\* that the tool reported keeps the tool's value, and a name scraped from
\* main.nf is added with "false" only when the tool did not report it.
C1_ToolValueKept ==
    \A p \in Procs :
        (Done(p) /\ result[p].kind = "return" /\ tool_outcome[p] = "ok") =>
            /\ DictKeys(result[p].config) = DictKeys(tool_config[p]) \cup ScannedNames(wf_files)
            /\ \A k \in DictKeys(tool_config[p]) :
                   DictGet(result[p].config, k) = DictGet(tool_config[p], k)
            /\ \A k \in ScannedNames(wf_files) \ DictKeys(tool_config[p]) :
                   DictGet(result[p].config, k) = SentinelFalse

\* C2 as stated: once a call on a directory state has returned a mapping,
\* every later call on that directory state returns an equal mapping and
\* invokes the tool zero times.
C2_LaterCallCached ==
    \A p \in Procs :
        (Done(p) /\ first_result[wf_files].kind = "return") =>
            /\ result[p].kind = "return"
            /\ DictEq(result[p].config, first_result[wf_files].config)
            /\ invoked[p] = 0

\* a cache file can be used: the nextflow home directory exists and at least
\* one tracked file is present
Cacheable == nxf_home_isdir /\ ~NoTrackedFiles

\* C2 amended: the same, for calls with a usable cache file, that is, when the
\* nextflow home directory exists and at least one tracked file is present.
C2_LaterCallCachedWhenCacheable ==
    \A p \in Procs :
        (Done(p) /\ first_result[wf_files].kind = "return" /\ Cacheable) =>
            /\ result[p].kind = "return"
            /\ DictEq(result[p].config, first_result[wf_files].config)
            /\ invoked[p] = 0

C2_Witness ==
    \E p \in Procs :
        /\ Done(p) /\ first_result[wf_files].kind = "return" /\ Cacheable
        /\ cache_read[p] /\ result[p].kind = "return" /\ invoked[p] = 0
        /\ Len(result[p].config) >= 2

\* C3: a call whose tool invocation succeeded and whose cache file could not
\* be written still returns the freshly computed merged mapping.
C3_PersistFailureNonFatal ==
    \A p \in Procs :
        (Done(p) /\ tool_outcome[p] = "ok" /\ persist_failed[p]) =>
            /\ result[p].kind = "return"
            /\ DictEq(result[p].config, config[p])

\* C4: a call that finds its cache file missing, unreadable or not
\* deserializable does not fail on that: it goes on to invoke the tool.
C4_ReadMissIsOrdinary ==
    \A p \in Procs :
        (Done(p) /\ cache_miss[p]) =>
            /\ invoked[p] = 1
            /\ result[p].err \notin {"JSONDecodeError", "FileNotFoundError"}

\* C5: a call in which the tool is not found, or exits with a non-zero
\* status, raises the matching error, returns no mapping, and leaves every
\* cache file as it was when the call started.
C5_ToolFailureAborts ==
    \A p \in Procs :
        (Done(p) /\ tool_outcome[p] \in {"ENOENT", "nonzero"}) =>
            /\ result[p].kind = "raise"
            /\ result[p].err = IF tool_outcome[p] = "ENOENT"
                               THEN "AssertionError: Nextflow is not installed"
                               ELSE "AssertionError: non-zero error code"
            /\ result[p].config = <<>>
            /\ ~cache_written[p]
            /\ cache_files = cache_at_start[p]

C5_Witness ==
    \E p \in Procs :
        /\ Done(p) /\ tool_outcome[p] = "nonzero" /\ result[p].kind = "raise"
        /\ cache_path[p] # <<>>
        /\ \E fn \in AllCacheFns : cache_files[fn].exists

\* C6: a directory state that differs from the one a cache file was written
\* for has a different cache file name, and a call never returns from a cache
\* file written for another directory state.
C6_ChangeInvalidates ==
    /\ \A fn \in AllCacheFns :
           (cache_src[fn] # NoDir /\ cache_src[fn] # wf_files) =>
               CacheFn(ConcatHash(wf_files)) # fn
    /\ \A p \in Procs :
           (Done(p) /\ cache_read[p] /\ result[p].kind = "return") =>
               cache_src[cache_path[p]] = wf_files

\* the errors that end a call in os.mkdir, before any hashing
MkdirErrors == {"PermissionError", "FileExistsError"}

C8_CacheEqualsFresh ==
    /\ \A fn \in AllCacheFns :
           (cache_files[fn].exists /\ JsonValid(cache_files[fn].text)) =>
               \A d \in DirStates :
                   CacheFn(ConcatHash(d)) = fn =>
                       DictEq(JsonLoad(cache_files[fn].text), Fresh(d))
    /\ \A p \in Procs :
           (Done(p) /\ tool_outcome[p] \notin {"none", "ok"}) =>
               /\ result[p].kind = "raise"
               /\ ~cache_written[p]

\* C9: with no failure of the tool or of the file system, every concurrent
\* call that got past os.mkdir ends by returning the mapping of a lone
\* resolution, and once all calls have ended an existing cache file holds it.
C9_RaceIsBenign ==
    ~faulted =>
        /\ \A p \in Procs :
               (Done(p) /\ result[p].err # "FileExistsError") =>
                   /\ result[p].kind = "return"
                   /\ DictEq(result[p].config, Fresh(wf_files))
        /\ (\A p \in procs : pc[p] \in {"idle", "done"}) =>
               \A fn \in AllCacheFns :
                   cache_files[fn].exists =>
                       /\ JsonValid(cache_files[fn].text)
                       /\ DictEq(JsonLoad(cache_files[fn].text), Fresh(wf_files))

\* the lines that contain the separator, and their first separator
HasSepAt(l, i) == i + 2 <= Len(l) /\ l[i] = " " /\ l[i + 1] = "=" /\ l[i + 2] = " "
WellFormed(l) == \E i \in 1..Len(l) : HasSepAt(l, i)
FirstSepAt(l) == CHOOSE i \in 1..Len(l) : HasSepAt(l, i) /\ \A j \in 1..(i - 1) : ~HasSepAt(l, j)
KeyOf(l) == SubSeq(l, 1, FirstSepAt(l) - 1)
ValueOf(l) == SubSeq(l, FirstSepAt(l) + 3, Len(l))
SetMax(S) == CHOOSE x \in S : \A y \in S : y <= x

\* C10: after any number of lines, the keys of config are the keys of the
\* lines read so far that contain " = " (the text before its first
\* occurrence), each with the text after that first occurrence in the last
\* such line; lines without " = " change nothing.
C10_LastWriteWins ==
    LET n == p_idx - 1
        wf == {i \in 1..n : WellFormed(p_lines[i])}
        of(k) == {i \in wf : KeyOf(p_lines[i]) = k}
    IN /\ DictKeys(p_config) = {KeyOf(p_lines[i]) : i \in wf}
       /\ \A k \in DictKeys(p_config) : DictGet(p_config, k) = ValueOf(p_lines[SetMax(of(k))])
       /\ Len(p_config) = Cardinality(DictKeys(p_config))

C10_Witness ==
    /\ p_idx = Len(p_lines) + 1
    /\ Len(p_lines) = 3
    /\ WellFormed(p_lines[1]) /\ ~WellFormed(p_lines[2]) /\ WellFormed(p_lines[3])
    /\ KeyOf(p_lines[1]) = KeyOf(p_lines[3])
    /\ ValueOf(p_lines[1]) # ValueOf(p_lines[3])
    /\ WellFormed(ValueOf(p_lines[3]))

====
